---- MODULE Spec2Model ----
(***************************************************************************)
(* A model of torch/nn/parallel/_functions.py (Broadcast,                  *)
(* ReduceAddCoalesced, Gather, Scatter, _get_device_impl, _get_stream) and *)
(* of torch/backends/_coreml/preprocess.py (preprocess).                   *)
(*                                                                         *)
(* Every call of an operation is one action.  The action leaves in `last`  *)
(* what the call was given, what it returned or raised, the fields of ctx  *)
(* it wrote and, in order, the calls it made into the libraries it wraps   *)
(* (`log`); `pre` keeps the module-level state the call started from.      *)
(*                                                                         *)
(* Python's Optional[T] is a sequence of length at most one: None is <<>>  *)
(* and a value x is <<x>>.  A device is its index; the CPU is -1.          *)
(***************************************************************************)
EXTENDS Integers, Sequences, FiniteSets, TLC

VARIABLES
    cudaAvail,      \* environment: torch.cuda.is_available()
    xpuAvail,       \* environment: torch.xpu.is_available()
    deviceCount,    \* environment: ddp_gpu.device_count()
    implCache,      \* functools.cache of _get_device_impl: None or the pair
    _streams,       \* module global _streams
    allStreams,     \* every ddp_gpu.Stream(device) ever constructed, in order
    pre,            \* implCache, _streams, allStreams as the last call found them
    ctx,            \* the autograd context of the most recent forward
    last            \* the most recent call

vars == <<cudaAvail, xpuAvail, deviceCount, implCache, _streams, allStreams,
          pre, ctx, last>>

----------------------------------------------------------------------------
(* Bounds of the model *)

MaxDevices == 2
MaxTargets == 2
MaxInputs == 2
MaxOutputs == 2
MaxSize == 2

(* Program constants *)

CPU == -1

None == <<>>
Some(x) == <<x>>
IsNone(o) == o = <<>>
The(o) == o[1]

Devices == 0 .. (deviceCount - 1)

RECURSIVE SumSeq(_)
SumSeq(s) == IF s = <<>> THEN 0 ELSE Head(s) + SumSeq(Tail(s))

SeqsOf(S, lo, hi) == UNION {[1 .. n -> S] : n \in lo .. hi}

----------------------------------------------------------------------------
(* The device runtime *)

\* torch._utils._get_available_device_type: the first available device type
_get_available_device_type ==
    IF cudaAvail THEN Some("cuda")
    ELSE IF xpuAvail THEN Some("xpu")
    ELSE None

\* importlib.import_module("torch." + ddp_device_type)
import_module(name) == [module |-> name]

\* ddp_gpu.is_available()
is_available(ddp_gpu) ==
    IF ddp_gpu.module = "torch.cuda" THEN cudaAvail ELSE xpuAvail

\* ddp_gpu.current_stream() inside `with ddp_gpu.device(device)`
current_stream(device) == [kind |-> "current", device |-> device]

\* ddp_gpu.Stream(device): a new stream object, the (n+1)-th constructed
NewStream(device, n) == [kind |-> "background", device |-> device, id |-> n + 1]

\* _get_device_impl without functools.cache: the body runs on every call
_get_device_impl_uncached(cache) ==
    LET ddp_device_type == _get_available_device_type
    IN  IF ~IsNone(ddp_device_type)
        THEN LET pair == <<The(ddp_device_type),
                           import_module("torch." \o The(ddp_device_type))>>
             IN  [exc |-> "none", ret |-> Some(pair), cache |-> Some(pair)]
        ELSE [exc |-> "ImportError", ret |-> None, cache |-> cache]

\* _get_device_impl under functools.cache: a cached value is returned without
\* running the body; a raising call stores nothing.
_get_device_impl(cache) ==
    IF ~IsNone(cache)
    THEN [exc |-> "none", ret |-> cache, cache |-> cache]
    ELSE LET ddp_device_type == _get_available_device_type
         IN  IF ~IsNone(ddp_device_type)
             THEN LET pair == <<The(ddp_device_type),
                                import_module("torch." \o The(ddp_device_type))>>
                  IN  [exc |-> "none", ret |-> Some(pair), cache |-> Some(pair)]
             ELSE [exc |-> "ImportError", ret |-> None, cache |-> cache]

\* Lines 133-137 given the table of lines 133-134, but making a stream on
\* every call
GetStreamOfDevice_always_new(device, st, table) ==
    [cache |-> st.cache,
     streams |-> Some([table EXCEPT ![device + 1] = Some(NewStream(device, Len(st.all)))]),
     all |-> Append(st.all, NewStream(device, Len(st.all))),
     exc |-> "none", ret |-> Some(NewStream(device, Len(st.all)))]

\* Lines 135-137 of _get_stream for a device d # -1, on module state st whose
\* cache holds the device module; table is _streams after lines 133-134
GetStreamOfDevice(device, st, table) ==
    IF device + 1 \notin DOMAIN table
    THEN [cache |-> st.cache, streams |-> Some(table), all |-> st.all,
          exc |-> "IndexError", ret |-> None]
    ELSE IF IsNone(table[device + 1])
    THEN [cache |-> st.cache,
          streams |-> Some([table EXCEPT
                               ![device + 1] = Some(NewStream(device, Len(st.all)))]),
          all |-> Append(st.all, NewStream(device, Len(st.all))),
          exc |-> "none", ret |-> Some(NewStream(device, Len(st.all)))]
    ELSE [cache |-> st.cache, streams |-> Some(table), all |-> st.all,
          exc |-> "none", ret |-> table[device + 1]]

\* Lines 133-134: _streams, made when it is None
StreamTable(streams) ==
    IF IsNone(streams) THEN [i \in 1 .. deviceCount |-> None] ELSE The(streams)

\* Lines 131-137 of _get_stream, impl being what _get_device_impl did at line 130
GetStreamAfterImpl(device, st, impl) ==
    IF impl.exc # "none"
    THEN [cache |-> impl.cache, streams |-> st.streams, all |-> st.all,
          exc |-> impl.exc, ret |-> None]
    ELSE IF device = -1
    THEN [cache |-> impl.cache, streams |-> st.streams, all |-> st.all,
          exc |-> "none", ret |-> None]
    ELSE GetStreamOfDevice(device, [st EXCEPT !.cache = impl.cache],
                           StreamTable(st.streams))

\* _get_stream(device) run on the module state st = [cache, streams, all]:
\* the state it leaves, what it returns (ret) or raises (exc).
_get_stream(device, st) == GetStreamAfterImpl(device, st, _get_device_impl(st.cache))

ModuleState == [cache |-> implCache, streams |-> _streams, all |-> allStreams]

----------------------------------------------------------------------------
(* Tensors of Gather and Scatter: the device and the shape.  The calls into  *)
(* torch and torch.nn.parallel.comm that the functions make.                 *)

Tensor(dev, shape) == [dev |-> dev, shape |-> shape]

\* torch._utils._get_device_index(x, True) of a device index
_get_device_index(x) == x

\* Tensor.get_device()
get_device(t) == t.dev

\* Tensor.dim()
ndim(t) == Len(t.shape)

\* Tensor.size(dim) is defined for 0 <= dim < t.dim() and raises IndexError
\* otherwise (a 0-dimensional tensor has no sizes)
HasSize(t, dim) == dim + 1 \in DOMAIN t.shape
size(t, dim) == t.shape[dim + 1]

\* Tensor.view(1) of a 0-dimensional tensor
view1(t) == [t EXCEPT !.shape = <<1>>]

\* g[0]: the first slice along dimension 0
Index0(t) == [t EXCEPT !.shape = Tail(t.shape)]

\* The sizes of tensor.chunk(n, dim) for a dimension of size s >= 1
ChunkSizes(s, n) ==
    LET cs == (s + n - 1) \div n
        k == (s + cs - 1) \div cs
    IN  [i \in 1 .. k |-> IF i < k THEN cs ELSE s - cs * (k - 1)]

\* comm.scatter(tensor, devices, chunk_sizes, dim, streams): chunk i of the
\* tensor along dim, on devices[i]; with chunk_sizes None the tensor is cut
\* into at most len(devices) chunks.
comm_scatter(tensor, devices, chunk_sizes, dim, streams) ==
    IF ~HasSize(tensor, dim) \/ devices = <<>>
    THEN [exc |-> "RuntimeError", ret |-> <<>>]
    ELSE IF ~IsNone(chunk_sizes)
            /\ (\/ Len(The(chunk_sizes)) # Len(devices)
                \/ SumSeq(The(chunk_sizes)) # size(tensor, dim))
    THEN [exc |-> "RuntimeError", ret |-> <<>>]
    ELSE LET sizes == IF IsNone(chunk_sizes)
                      THEN ChunkSizes(size(tensor, dim), Len(devices))
                      ELSE The(chunk_sizes)
         IN  [exc |-> "none",
              ret |-> [i \in 1 .. Len(sizes) |->
                         Tensor(devices[i],
                                [tensor.shape EXCEPT ![dim + 1] = sizes[i]])]]

\* comm.gather(tensors, dim, destination): the concatenation along dim on the
\* destination device
comm_gather(tensors, dim, destination) ==
    IF \/ tensors = <<>>
       \/ \E i \in DOMAIN tensors :
             \/ ~HasSize(tensors[i], dim)
             \/ ndim(tensors[i]) # ndim(tensors[1])
             \/ \E j \in DOMAIN tensors[i].shape :
                   j # dim + 1 /\ tensors[i].shape[j] # tensors[1].shape[j]
    THEN [exc |-> "RuntimeError", ret |-> None]
    ELSE [exc |-> "none",
          ret |-> Some(Tensor(destination,
                     [tensors[1].shape EXCEPT ![dim + 1] =
                        SumSeq([i \in DOMAIN tensors |-> size(tensors[i], dim)])]))]

----------------------------------------------------------------------------
(* Scatter *)

StateOf(r) == [cache |-> r.cache, streams |-> r.streams, all |-> r.all]

RECURSIVE GetStreams(_, _)

\* The rest of the comprehension of line 107 after _get_stream did r
GetStreamsAfter(r, rest) ==
    IF r.exc # "none"
    THEN [st |-> StateOf(r), exc |-> r.exc, streams |-> <<>>]
    ELSE [GetStreams(rest, StateOf(r)) EXCEPT !.streams = <<r.ret>> \o @]

\* streams = [_get_stream(device) for device in target_gpus], left to right
GetStreams(target_gpus, st) ==
    IF target_gpus = <<>>
    THEN [st |-> st, exc |-> "none", streams |-> <<>>]
    ELSE GetStreamsAfter(_get_stream(Head(target_gpus), st), Tail(target_gpus))

\* The loop body with the two calls in the other order
SyncOutput_record_first(i, target_gpus, streams) ==
    LET main_stream == current_stream(target_gpus[i + 1])
    IN  << [call |-> "record_stream", output |-> i, on |-> main_stream],
           [call |-> "wait_stream", on |-> main_stream, stream |-> streams[i + 1]] >>

\* One turn of the loop of lines 111-115 for output i (counted from 0): the
\* calls made, in order.
SyncOutput(i, target_gpus, streams) ==
    LET main_stream == current_stream(target_gpus[i + 1])
    IN  << [call |-> "wait_stream", on |-> main_stream, stream |-> streams[i + 1]],
           [call |-> "record_stream", output |-> i, on |-> main_stream] >>

\* The loop of lines 111-115 over enumerate(outputs)
SyncLog(outputs, target_gpus, streams) ==
    [k \in 1 .. 2 * Len(outputs) |->
        SyncOutput((k - 1) \div 2, target_gpus, streams)[((k - 1) % 2) + 1]]

\* The test of line 105 without its second half
UsesStreams_any_input(ddp_gpu, input_device) ==
    is_available(ddp_gpu)

\* Whether lines 105-107 take the background streams
UsesStreams(ddp_gpu, input_device) ==
    is_available(ddp_gpu) /\ input_device = -1

\* Lines 103-107: streams, and the module state after getting them
ScatterStreams(target_gpus, input_device, st, ddp_gpu) ==
    IF UsesStreams(ddp_gpu, input_device)
    THEN [GetStreams(target_gpus, st) EXCEPT
             !.streams = Some([i \in DOMAIN @ |-> The(@[i])])]
    ELSE [st |-> st, exc |-> "none", streams |-> None]

\* Lines 109-116, sc being what comm.scatter did at line 108
ScatterAfterComm(target_gpus, args, streams, sc) ==
    IF sc.exc # "none"
    THEN [exc |-> sc.exc, ret |-> <<>>, log |-> << args >>]
    ELSE [exc |-> "none", ret |-> sc.ret,
          log |-> << args >> \o (IF ~IsNone(streams)
                                 THEN SyncLog(sc.ret, target_gpus, The(streams))
                                 ELSE <<>>)]

\* Lines 108-116, got being the streams of lines 103-107 and the module state
\* after getting them
ScatterAfterStreams(target_gpus, chunk_sizes, dim, input, got) ==
    IF got.exc # "none"
    THEN [st |-> got.st, out |-> [exc |-> got.exc, ret |-> <<>>, log |-> <<>>]]
    ELSE [st |-> got.st,
          out |-> ScatterAfterComm(
                     target_gpus,
                     [call |-> "comm.scatter", devices |-> target_gpus,
                      chunk_sizes |-> chunk_sizes, dim |-> dim,
                      streams |-> got.streams],
                     got.streams,
                     comm_scatter(input, target_gpus, chunk_sizes, dim, got.streams))]

\* Lines 105-116, impl being what _get_device_impl did at line 104
ScatterAfterImpl(target_gpus, chunk_sizes, dim, input, input_device, st, impl) ==
    IF impl.exc # "none"
    THEN [st |-> st, out |-> [exc |-> impl.exc, ret |-> <<>>, log |-> <<>>]]
    ELSE ScatterAfterStreams(target_gpus, chunk_sizes, dim, input,
             ScatterStreams(target_gpus, input_device,
                            [st EXCEPT !.cache = impl.cache], The(impl.ret)[2]))

\* Line 102
InputDevice(input) == IF input.dev # CPU THEN get_device(input) ELSE -1

\* Scatter.forward(ctx, target_gpus, chunk_sizes, dim, input) on module state
\* st: the module state it leaves (st), what it raised or returned with the
\* calls it made (out), and the fields of ctx it wrote (ctx)
ScatterForward(target_gpus, chunk_sizes, dim, input, st) ==
    ScatterAfterImpl([i \in DOMAIN target_gpus |-> _get_device_index(target_gpus[i])],
                     chunk_sizes, dim, input, InputDevice(input), st,
                     _get_device_impl(st.cache))
    @@ [ctx |-> [class |-> "Scatter", dim |-> dim, input_device |-> InputDevice(input)]]

----------------------------------------------------------------------------
(* Gather *)

\* The condition of line 77 without its second half
AllScalarsAlongDim0_any_dim(inputs, dim) ==
    \A i \in DOMAIN inputs : ndim(inputs[i]) = 0

\* The condition of line 77
AllScalarsAlongDim0(inputs, dim) ==
    (\A i \in DOMAIN inputs : ndim(inputs[i]) = 0) /\ dim = 0

\* The assertion looking at the first input only
NoCpuTensor_first_only(inputs) == inputs = <<>> \/ inputs[1].dev # CPU

\* The assertion of lines 25 and 67
NoCpuTensor(inputs) == \A i \in DOMAIN inputs : inputs[i].dev # CPU

\* Gather.forward(ctx, target_device, dim, *inputs): what it raises or returns,
\* the fields of ctx it wrote and the calls it made.  The string 'cpu' and the
\* index -1 both stand for the CPU and are both CPU here.
GatherForward(target_device0, dim, inputs0) ==
    IF ~NoCpuTensor(inputs0)
    THEN [exc |-> "AssertionError", ret |-> None, log |-> <<>>,
          ctx |-> [class |-> "Gather", written |-> {}]]
    ELSE
    LET target_device == IF target_device0 = CPU THEN CPU
                         ELSE _get_device_index(target_device0)
        input_gpus == [i \in DOMAIN inputs0 |-> get_device(inputs0[i])]
        unsqueeze == AllScalarsAlongDim0(inputs0, dim)
        inputs == IF unsqueeze
                  THEN [i \in DOMAIN inputs0 |-> view1(inputs0[i])]
                  ELSE inputs0
        warned == IF unsqueeze THEN << [call |-> "warnings.warn"] >> ELSE <<>>
        ctx1 == [class |-> "Gather",
                 written |-> {"target_device", "dim", "input_gpus", "unsqueezed_scalar"},
                 target_device |-> target_device, dim |-> dim,
                 input_gpus |-> input_gpus, unsqueezed_scalar |-> unsqueeze,
                 input_sizes |-> <<>>]
    IN  IF \E i \in DOMAIN inputs : ~HasSize(inputs[i], dim)
        THEN [exc |-> "IndexError", ret |-> None, log |-> warned, ctx |-> ctx1]
        ELSE
        LET ctx2 == [ctx1 EXCEPT
                        !.written = @ \cup {"input_sizes"},
                        !.input_sizes = [i \in DOMAIN inputs |-> size(inputs[i], dim)]]
            g == comm_gather(inputs, ctx2.dim, ctx2.target_device)
        IN  [exc |-> g.exc, ret |-> g.ret, ctx |-> ctx2,
             log |-> warned \o << [call |-> "comm.gather", tensors |-> inputs,
                                   dim |-> ctx2.dim,
                                   destination |-> ctx2.target_device] >>]

\* Lines 91-93, sc being what Scatter.apply did at line 90
GatherBackwardAfterScatter(c, sc) ==
    IF sc.out.exc # "none"
    THEN [st |-> sc.st, exc |-> sc.out.exc, ret |-> <<>>, log |-> sc.out.log]
    ELSE [st |-> sc.st, exc |-> "none", log |-> sc.out.log,
          ret |-> <<None, None>> \o
                  [i \in DOMAIN sc.out.ret |->
                      Some(IF c.unsqueezed_scalar
                           THEN Index0(sc.out.ret[i])
                           ELSE sc.out.ret[i])]]

\* Gather.backward(ctx, grad_output) on module state st; Scatter.apply runs
\* Scatter.forward.
GatherBackward(c, grad_output, st) ==
    GatherBackwardAfterScatter(
        c, ScatterForward(c.input_gpus, Some(c.input_sizes), c.dim, grad_output, st))

----------------------------------------------------------------------------
(* Broadcast and ReduceAddCoalesced.  Their tensors are a device and the data *)
(* held: a label for an input, a number for a gradient.                       *)

DataTensor(dev, data) == [dev |-> dev, data |-> data]

\* comm.broadcast_coalesced(tensors, devices): for each device, in order, the
\* copies of all the tensors on it
comm_broadcast_coalesced(tensors, devices) ==
    [d \in DOMAIN devices |->
        [i \in DOMAIN tensors |-> DataTensor(devices[d], tensors[i].data)]]

\* comm.reduce_add_coalesced(inputs, destination): inputs holds one list of
\* tensors per device; result i is the sum over the devices of their i-th
\* tensors, on the destination
comm_reduce_add_coalesced(inputs, destination) ==
    [i \in DOMAIN inputs[1] |->
        DataTensor(destination, SumSeq([d \in DOMAIN inputs |-> inputs[d][i].data]))]

\* Lines 36-39 reading ctx.needs_input_grad without the [1:]
NonDifferentiables_no_offset(needs_input_grad, outputs) ==
    LET n == Len(needs_input_grad) - 1
        idxs == {idx \in 0 .. n - 1 : ~needs_input_grad[idx + 1]}
    IN  {outputs[d][idx + 1] : d \in DOMAIN outputs, idx \in idxs}

\* Lines 35-39: the outputs handed to ctx.mark_non_differentiable; idx counts
\* the entries of ctx.needs_input_grad[1:] from 0
NonDifferentiables(needs_input_grad, outputs) ==
    LET n == Len(needs_input_grad) - 1
        idxs == {idx \in 0 .. n - 1 : ~needs_input_grad[idx + 2]}
    IN  {outputs[d][idx + 1] : d \in DOMAIN outputs, idx \in idxs}

\* The outputs flattened input by input instead of device by device
Flatten_by_input(outputs, n) ==
    [k \in 1 .. Len(outputs) * n |->
        outputs[((k - 1) % Len(outputs)) + 1][((k - 1) \div Len(outputs)) + 1]]

\* Line 41: tuple([t for tensors in outputs for t in tensors]), each of the
\* tensors lists holding n tensors
Flatten(outputs, n) ==
    [k \in 1 .. Len(outputs) * n |-> outputs[((k - 1) \div n) + 1][((k - 1) % n) + 1]]

\* Broadcast.forward(ctx, target_gpus, *inputs) with ctx.needs_input_grad set
\* by autograd
BroadcastForward(target_gpus0, inputs, needs_input_grad) ==
    IF ~NoCpuTensor(inputs)
    THEN [exc |-> "AssertionError", ret |-> <<>>, log |-> <<>>,
          ctx |-> [class |-> "Broadcast", written |-> {}]]
    ELSE
    LET target_gpus == [i \in DOMAIN target_gpus0 |-> _get_device_index(target_gpus0[i])]
    IN  IF Len(inputs) = 0
        THEN [exc |-> "none", ret |-> <<>>, log |-> <<>>,
              ctx |-> [class |-> "Broadcast", written |-> {"target_gpus"},
                       target_gpus |-> target_gpus, num_inputs |-> 0,
                       input_device |-> 0]]
        ELSE
        LET c == [class |-> "Broadcast",
                  written |-> {"target_gpus", "num_inputs", "input_device"},
                  target_gpus |-> target_gpus, num_inputs |-> Len(inputs),
                  input_device |-> get_device(inputs[1])]
            outputs == comm_broadcast_coalesced(inputs, c.target_gpus)
        IN  [exc |-> "none", ctx |-> c,
             ret |-> Flatten(outputs, Len(inputs)),
             log |-> << [call |-> "comm.broadcast_coalesced", tensors |-> inputs,
                         devices |-> c.target_gpus],
                        [call |-> "mark_non_differentiable",
                         tensors |-> NonDifferentiables(needs_input_grad, outputs)] >>]

\* Lines 54-55: [grads[i:i + num_inputs] for i in range(0, len(grads), num_inputs)]
Regroup(grads, num_inputs) ==
    [d \in 1 .. (Len(grads) + num_inputs - 1) \div num_inputs |->
        SubSeq(grads, (d - 1) * num_inputs + 1,
               IF d * num_inputs <= Len(grads) THEN d * num_inputs ELSE Len(grads))]

\* ReduceAddCoalesced.forward(ctx, destination, num_inputs, *grads)
ReduceAddCoalescedForward(destination, num_inputs, grads) ==
    LET grads_ == Regroup(grads, num_inputs)
    IN  [ctx |-> [class |-> "ReduceAddCoalesced",
                  target_gpus |-> [d \in DOMAIN grads_ |-> get_device(grads_[d][1])]],
         ret |-> comm_reduce_add_coalesced(grads_, destination),
         log |-> << [call |-> "comm.reduce_add_coalesced", inputs |-> grads_,
                     destination |-> destination] >>]

\* Broadcast.backward(ctx, *grad_outputs)
BroadcastBackward(c, grad_outputs) ==
    LET r == ReduceAddCoalescedForward(c.input_device, c.num_inputs, grad_outputs)
    IN  [exc |-> "none", log |-> r.log,
         ret |-> <<None>> \o [i \in DOMAIN r.ret |-> Some(r.ret[i])]]

----------------------------------------------------------------------------
(* preprocess (torch/backends/_coreml/preprocess.py)                         *)
(*                                                                           *)
(* A shape is a list whose elements are integers, [kind |-> "int", v |-> n], *)
(* or lists of integers, [kind |-> "list", v |-> <<...>>].                   *)

ScalarType_Float == 0
ScalarType_Double == 1
ScalarType_Int == 2
ScalarType_Long == 3
ScalarType_Undefined == 4

\* torch_to_mil_types, lines 23-28
torch_to_mil_types ==
    (ScalarType_Float :> "fp32") @@ (ScalarType_Double :> "fp64")
        @@ (ScalarType_Int :> "int32") @@ (ScalarType_Long :> "int64")

IntElem(n) == [kind |-> "int", v |-> n]
ListElem(l) == [kind |-> "list", v |-> l]

\* str() of a non-negative integer
DigitStr(d) == <<"0", "1", "2", "3", "4", "5", "6", "7", "8", "9">>[d + 1]

RECURSIVE IntStr(_)
IntStr(n) == IF n < 10 THEN DigitStr(n) ELSE IntStr(n \div 10) \o DigitStr(n % 10)

\* str() of a list of integers: "[1, 2]"
RECURSIVE JoinInts(_)
JoinInts(l) ==
    IF l = <<>> THEN ""
    ELSE IF Len(l) = 1 THEN IntStr(l[1])
    ELSE IntStr(l[1]) \o ", " \o JoinInts(Tail(l))

IntListStr(l) == "[" \o JoinInts(l) \o "]"

ElemStr(e) == IF e.kind = "int" THEN IntStr(e.v) ELSE IntListStr(e.v)

RECURSIVE JoinElems(_)
JoinElems(l) ==
    IF l = <<>> THEN ""
    ELSE IF Len(l) = 1 THEN ElemStr(l[1])
    ELSE ElemStr(l[1]) \o ", " \o JoinElems(Tail(l))

\* str(shape)
ShapeStr(shape) == "[" \o JoinElems(shape) \o "]"

\* str(allow_low_precision)
BoolStr(b) == IF b THEN "True" ELSE "False"

\* _check_enumerated_shape, lines 45-49
_check_enumerated_shape(shape) == \A i \in DOMAIN shape : shape[i].kind = "list"

\* _convert_to_mil_type, lines 52-58; raises KeyError for a dtype that
\* torch_to_mil_types does not hold
_convert_to_mil_type(shape, dtype, name) ==
    LET mil_shape == IF _check_enumerated_shape(shape)
                     THEN [EnumeratedShapes |-> shape]
                     ELSE [shape |-> shape]
    IN  [shape |-> mil_shape, dtype |-> torch_to_mil_types[dtype], name |-> name]

\* The name of input index (from 0) with the index counted from 1
InputName_from_one(index) == "input_" \o IntStr(index + 1)

\* Line 68: name = "input_" + str(index)
InputName(index) == "input_" \o IntStr(index)

\* hashlib.sha256(data).hexdigest(): the digest of exactly these bytes
sha256_hexdigest(data) == [sha256_of |-> data]

\* json.dumps(obj): the JSON text that holds obj
json_dumps(obj) == [json |-> obj]

\* The outputs entries built from the names in the wrong order of fields
OutputEntries_from_specs(output_specs, names) ==
    [i \in DOMAIN output_specs |->
        << "output_" \o IntStr(i - 1), IntStr(output_specs[i][2]),
           ShapeStr(output_specs[i][1]) >>]

\* Lines 76-80: one entry for each output spec, named by the model's output of
\* the same index
OutputEntries(output_specs, names) ==
    [i \in DOMAIN output_specs |->
        << names[i], IntStr(output_specs[i][2]), ShapeStr(output_specs[i][1]) >>]

\* preprocess(script_module, compile_spec) where mlspec is the spec of the
\* model ct.convert returns: [output, specificationVersion, serialized,
\* coremltool_ver, torch_ver]
preprocess(compile_spec, mlspec) ==
    LET spec == compile_spec["forward"]
        input_specs == spec[1]
        output_specs == spec[2]
        backend == spec[3]
        allow_low_precision == spec[4]
        inputs == [i \in DOMAIN input_specs |->
                     << InputName(i - 1), IntStr(input_specs[i][2]),
                        ShapeStr(input_specs[i][1]) >>]
    IN  IF \E i \in DOMAIN input_specs : input_specs[i][2] \notin DOMAIN torch_to_mil_types
        THEN [exc |-> "KeyError", ret |-> None, log |-> <<>>]
        ELSE
        LET mil_inputs == [i \in DOMAIN input_specs |->
                             _convert_to_mil_type(input_specs[i][1], input_specs[i][2],
                                                  InputName(i - 1))]
            log == << [call |-> "ct.convert", inputs |-> mil_inputs] >>
        IN  IF Len(mlspec.output) # Len(output_specs)
            THEN [exc |-> "AssertionError", ret |-> None, log |-> log]
            ELSE
            LET outputs == OutputEntries(output_specs, mlspec.output)
                config == [spec_ver |-> IntStr(mlspec.specificationVersion),
                           backend |-> backend,
                           allow_low_precision |-> BoolStr(allow_low_precision)]
                metadata == [coremltool_ver |-> mlspec.coremltool_ver,
                             torch_ver |-> mlspec.torch_ver]
                coreml_compile_spec == [inputs |-> inputs, outputs |-> outputs,
                                        config |-> config, metadata |-> metadata]
                mlmodel == mlspec.serialized
            IN  [exc |-> "none", log |-> log,
                 ret |-> Some([model |-> mlmodel,
                               hash |-> sha256_hexdigest(mlmodel),
                               extra |-> json_dumps(coreml_compile_spec)])]

----------------------------------------------------------------------------
(* The state machine.  A call is made when the previous one has been taken   *)
(* note of (`last` is cleared by Forget); the environment changes between    *)
(* calls.                                                                    *)

Idle == last.op = "none"

Init ==
    /\ cudaAvail \in BOOLEAN
    /\ xpuAvail \in BOOLEAN
    /\ deviceCount \in 1 .. MaxDevices
    /\ implCache = None
    /\ _streams = None
    /\ allStreams = <<>>
    /\ pre = [cache |-> None, streams |-> None, all |-> <<>>]
    /\ ctx = [class |-> "none"]
    /\ last = [op |-> "none"]

\* The caller is done with the result of the last call.
Forget ==
    /\ ~Idle
    /\ last' = [op |-> "none"]
    /\ pre' = ModuleState
    /\ ctx' = [class |-> "none"]
    /\ UNCHANGED <<cudaAvail, xpuAvail, deviceCount, implCache, _streams,
                   allStreams>>

\* The environment between two calls: a device type becomes available or stops
\* being available.
EnvChange ==
    /\ Idle
    /\ \E c \in BOOLEAN, x \in BOOLEAN :
          /\ <<c, x>> # <<cudaAvail, xpuAvail>>
          /\ cudaAvail' = c
          /\ xpuAvail' = x
    /\ UNCHANGED <<deviceCount, implCache, _streams, allStreams, pre, ctx, last>>

CallGetDeviceImpl ==
    /\ Idle
    /\ LET r == _get_device_impl(implCache)
       IN  /\ implCache' = r.cache
           /\ pre' = ModuleState
           /\ last' = [op |-> "_get_device_impl", exc |-> r.exc, ret |-> r.ret,
                       avail |-> _get_available_device_type]
    /\ UNCHANGED <<cudaAvail, xpuAvail, deviceCount, _streams, allStreams, ctx>>

CallGetStream ==
    /\ Idle
    /\ \E device \in -1 .. (deviceCount - 1) :
          LET r == _get_stream(device, ModuleState)
          IN  /\ implCache' = r.cache
              /\ _streams' = r.streams
              /\ allStreams' = r.all
              /\ pre' = ModuleState
              /\ last' = [op |-> "_get_stream", device |-> device, exc |-> r.exc,
                          ret |-> r.ret, avail |-> _get_available_device_type]
    /\ UNCHANGED <<cudaAvail, xpuAvail, deviceCount, ctx>>

TargetLists == SeqsOf(Devices, 1, MaxTargets)

\* The tensors handed to Scatter.apply directly: vectors, on the CPU or a device
ScatterInputs == {Tensor(d, <<s>>) : d \in {CPU} \cup Devices, s \in 1 .. MaxSize}

\* chunk_sizes: None, or one element for each target
ChunkChoices(target_gpus) == {None, Some([i \in DOMAIN target_gpus |-> 1])}

CallScatterForward ==
    /\ Idle
    /\ \E target_gpus \in TargetLists, input \in ScatterInputs :
       \E chunk_sizes \in ChunkChoices(target_gpus) :
          LET r == ScatterForward(target_gpus, chunk_sizes, 0, input, ModuleState)
          IN  /\ implCache' = r.st.cache
              /\ _streams' = r.st.streams
              /\ allStreams' = r.st.all
              /\ pre' = ModuleState
              /\ ctx' = r.ctx
              /\ last' = [op |-> "Scatter.forward", target_gpus |-> target_gpus,
                          chunk_sizes |-> chunk_sizes, dim |-> 0, input |-> input,
                          exc |-> r.out.exc, ret |-> r.out.ret, log |-> r.out.log,
                          avail |-> _get_available_device_type,
                          cuda |-> cudaAvail, xpu |-> xpuAvail]
    /\ UNCHANGED <<cudaAvail, xpuAvail, deviceCount>>

\* The shapes of the tensors handed to Gather: a scalar, vectors, a matrix
GatherShapes == {<<>>, <<1>>, <<2>>, <<1, 2>>}

GatherInputs ==
    SeqsOf({Tensor(d, sh) : d \in {CPU} \cup Devices, sh \in GatherShapes}, 0, MaxInputs)

CallGatherForward ==
    /\ Idle
    /\ \E target_device \in {CPU, 0}, dim \in {0, 1}, inputs \in GatherInputs :
          LET r == GatherForward(target_device, dim, inputs)
          IN  /\ ctx' = r.ctx
              /\ pre' = ModuleState
              /\ last' = [op |-> "Gather.forward", target_device |-> target_device,
                          dim |-> dim, inputs |-> inputs,
                          exc |-> r.exc, ret |-> r.ret, log |-> r.log]
    /\ UNCHANGED <<cudaAvail, xpuAvail, deviceCount, implCache, _streams, allStreams>>

\* autograd calls backward with the context of the forward that returned and a
\* gradient shaped and placed like the forward's output.
CallGatherBackward ==
    /\ last.op = "Gather.forward"
    /\ last.exc = "none"
    /\ LET grad_output == The(last.ret)
           r == GatherBackward(ctx, grad_output, ModuleState)
       IN  /\ implCache' = r.st.cache
           /\ _streams' = r.st.streams
           /\ allStreams' = r.st.all
           /\ pre' = ModuleState
           /\ last' = [op |-> "Gather.backward", grad_output |-> grad_output,
                       inputs |-> last.inputs,
                       exc |-> r.exc, ret |-> r.ret, log |-> r.log,
                       avail |-> _get_available_device_type]
    /\ UNCHANGED <<cudaAvail, xpuAvail, deviceCount, ctx>>

\* target_gpus of Broadcast: distinct devices
BroadcastTargets == {t \in TargetLists : \A i, j \in DOMAIN t : i # j => t[i] # t[j]}

\* Input i holds the data 10 * i
BroadcastInputs ==
    {[i \in DOMAIN devs |-> DataTensor(devs[i], 10 * i)] :
        devs \in SeqsOf({CPU} \cup Devices, 0, MaxInputs)}

CallBroadcastForward ==
    /\ Idle
    /\ \E target_gpus \in BroadcastTargets, inputs \in BroadcastInputs :
       \E requires_grad \in [DOMAIN inputs -> BOOLEAN] :
          LET needs_input_grad == <<FALSE>> \o requires_grad
              r == BroadcastForward(target_gpus, inputs, needs_input_grad)
          IN  /\ ctx' = r.ctx
              /\ pre' = ModuleState
              /\ last' = [op |-> "Broadcast.forward", target_gpus |-> target_gpus,
                          inputs |-> inputs, needs_input_grad |-> needs_input_grad,
                          exc |-> r.exc, ret |-> r.ret, log |-> r.log]
    /\ UNCHANGED <<cudaAvail, xpuAvail, deviceCount, implCache, _streams, allStreams>>

RECURSIVE Pow2(_)
Pow2(k) == IF k = 0 THEN 1 ELSE 2 * Pow2(k - 1)

\* autograd calls backward with one gradient per output of the forward, on the
\* output's device; the gradient of output k (from 0) holds 2^k.
CallBroadcastBackward ==
    /\ last.op = "Broadcast.forward"
    /\ last.exc = "none"
    /\ Len(last.ret) > 0
    /\ LET grad_outputs == [k \in DOMAIN last.ret |->
                               DataTensor(last.ret[k].dev, Pow2(k - 1))]
           r == BroadcastBackward(ctx, grad_outputs)
       IN  last' = [op |-> "Broadcast.backward", grad_outputs |-> grad_outputs,
                    inputs |-> last.inputs, target_gpus |-> last.target_gpus,
                    exc |-> r.exc, ret |-> r.ret, log |-> r.log]
    /\ pre' = ModuleState
    /\ UNCHANGED <<cudaAvail, xpuAvail, deviceCount, implCache, _streams,
                   allStreams, ctx>>

NextFunctions ==
    \/ Forget
    \/ CallBroadcastForward
    \/ CallBroadcastBackward
    \/ CallGatherForward
    \/ CallGatherBackward

SpecFunctions == Init /\ [][NextFunctions]_vars

\* The shapes of the tensor specs: a plain shape and an enumerated one
SpecShapes ==
    { <<IntElem(1), IntElem(12)>>,
      <<ListElem(<<1, 2>>), ListElem(<<1, 3>>)>> }

InputSpecs ==
    SeqsOf(SpecShapes \X {ScalarType_Float, ScalarType_Long, ScalarType_Undefined},
           0, MaxInputs)

OutputSpecs ==
    SeqsOf({<<IntElem(1)>>} \X {ScalarType_Float, ScalarType_Int}, 0, MaxOutputs)

\* CoreMLComputeUnit, lines 31-34
Backends == {"cpuOnly", "cpuAndGPU", "all"}

\* What ct.convert can return: a model with some outputs, named by the
\* converter, and its serialized bytes
ConvertedSpecs ==
    {[output |-> [j \in 1 .. k |-> "var_" \o IntStr(7 * j)],
      specificationVersion |-> 4,
      serialized |-> bytes,
      coremltool_ver |-> "6.3",
      torch_ver |-> "torch==2.0"] :
        k \in 0 .. MaxOutputs, bytes \in {<<8, 1>>, <<8, 2, 16>>}}

CallPreprocess ==
    /\ Idle
    /\ \E input_specs \in InputSpecs, output_specs \in OutputSpecs,
          backend \in Backends, allow_low_precision \in BOOLEAN,
          mlspec \in ConvertedSpecs :
          LET compile_spec == [forward |-> <<input_specs, output_specs, backend,
                                             allow_low_precision>>]
              r == preprocess(compile_spec, mlspec)
          IN  last' = [op |-> "preprocess", compile_spec |-> compile_spec,
                       mlspec |-> mlspec, exc |-> r.exc, ret |-> r.ret, log |-> r.log]
    /\ pre' = ModuleState
    /\ UNCHANGED <<cudaAvail, xpuAvail, deviceCount, implCache, _streams,
                   allStreams, ctx>>

NextPreprocess ==
    \/ Forget
    \/ CallPreprocess

SpecPreprocess == Init /\ [][NextPreprocess]_vars

NextStreams ==
    \/ Forget
    \/ EnvChange
    \/ CallGetDeviceImpl
    \/ CallGetStream
    \/ CallScatterForward

SpecStreams == Init /\ [][NextStreams]_vars

Next ==
    \/ Forget
    \/ EnvChange
    \/ CallGetDeviceImpl
    \/ CallGetStream
    \/ CallScatterForward
    \/ CallBroadcastForward
    \/ CallBroadcastBackward
    \/ CallGatherForward
    \/ CallGatherBackward
    \/ CallPreprocess

Spec == Init /\ [][Next]_vars

----------------------------------------------------------------------------
(* Claims about the background streams *)

IsCall(e, name) == e.call = name

SyncCalls(log) ==
    {k \in DOMAIN log : IsCall(log[k], "wait_stream") \/ IsCall(log[k], "record_stream")}

ScatterCalls(log) == {k \in DOMAIN log : IsCall(log[k], "comm.scatter")}

\* The stream _streams holds for a device
StoredStream(table, device) == The(The(table)[device + 1])

HasStream(table, device) ==
    /\ ~IsNone(table)
    /\ device + 1 \in DOMAIN The(table)
    /\ ~IsNone(The(table)[device + 1])

\* Scatter.forward got the device module, the input is on the CPU and the
\* module reports is_available()
C1_Case ==
    /\ last.op = "Scatter.forward"
    /\ last.input.dev = CPU
    /\ ~IsNone(implCache)
    /\ is_available(The(implCache)[2])

\* C1: in Scatter.forward with a CPU input and an available accelerator module,
\* comm.scatter is passed one background stream per target device (the stream
\* _get_stream keeps for that device) and, for every output i that comm.scatter
\* returned, the current stream of device target_gpus[i] waits on streams[i]
\* after comm.scatter and before output i is recorded on that current stream;
\* all of it before forward returns.
C1_ScatterSynchronizes ==
    C1_Case =>
        /\ Len(last.log) >= 1
        /\ ScatterCalls(last.log) = {1}
        /\ ~IsNone(last.log[1].streams)
        /\ LET streams == The(last.log[1].streams)
           IN  /\ Len(streams) = Len(last.target_gpus)
               /\ \A i \in DOMAIN streams :
                     /\ HasStream(_streams, last.target_gpus[i])
                     /\ streams[i] = StoredStream(_streams, last.target_gpus[i])
                     /\ streams[i].device = last.target_gpus[i]
               /\ last.exc = "none" =>
                     /\ Len(last.ret) <= Len(last.target_gpus)
                     /\ \A i \in DOMAIN last.ret :
                           LET main == current_stream(last.target_gpus[i])
                               waits == {k \in DOMAIN last.log :
                                           /\ IsCall(last.log[k], "wait_stream")
                                           /\ last.log[k].on = main
                                           /\ last.log[k].stream = streams[i]}
                               records == {k \in DOMAIN last.log :
                                           /\ IsCall(last.log[k], "record_stream")
                                           /\ last.log[k].output = i - 1}
                           IN  /\ records # {}
                               /\ \A r \in records :
                                     /\ last.log[r].on = main
                                     /\ \E w \in waits : 1 < w /\ w < r

C1_Witness ==
    /\ C1_Case
    /\ last.exc = "none"
    /\ Len(last.ret) >= 2
    /\ last.target_gpus[1] # last.target_gpus[2]

\* C3 as stated: every call of _get_device_impl, _get_stream or Scatter.forward
\* made while no accelerator device type is available raises ImportError.
C3_AsStated ==
    (/\ last.op \in {"_get_device_impl", "_get_stream", "Scatter.forward"}
     /\ IsNone(last.avail))
        => last.exc = "ImportError"

\* C3 (amended): a call of _get_device_impl made while no device type is
\* available and no earlier call has succeeded raises ImportError and stores
\* nothing; once a call has succeeded, every later call returns the stored pair,
\* whatever is available then; a first success returns (t, torch.t) for the
\* available device type t and stores it.  Scatter.forward and _get_stream
\* called while no device type is available and no call has succeeded raise
\* ImportError with no comm.scatter call made, no stream created and _streams
\* untouched.
C3_DeviceImpl ==
    /\ last.op = "_get_device_impl" =>
          /\ (IsNone(pre.cache) /\ IsNone(last.avail)) =>
                (last.exc = "ImportError" /\ IsNone(implCache))
          /\ (IsNone(pre.cache) /\ ~IsNone(last.avail)) =>
                /\ last.exc = "none"
                /\ last.ret = Some(<<The(last.avail),
                                     import_module("torch." \o The(last.avail))>>)
                /\ implCache = last.ret
          /\ ~IsNone(pre.cache) =>
                (last.exc = "none" /\ last.ret = pre.cache /\ implCache = pre.cache)
    /\ last.op \in {"_get_stream", "Scatter.forward"} =>
          /\ ~IsNone(pre.cache) => (implCache = pre.cache /\ last.exc # "ImportError")
          /\ (IsNone(pre.cache) /\ IsNone(last.avail)) =>
                /\ last.exc = "ImportError"
                /\ IsNone(implCache)
                /\ _streams = pre.streams
                /\ allStreams = pre.all
                /\ last.op = "Scatter.forward" => last.log = <<>>

C3_Witness ==
    /\ last.op = "_get_device_impl"
    /\ ~IsNone(pre.cache)
    /\ IsNone(last.avail)
    /\ last.exc = "none"

StreamsOf(device) == {k \in DOMAIN allStreams : allStreams[k].device = device}

\* C7: at most one background stream is ever created per device index.  A
\* _get_stream(d) call, d >= 0, that gets the device module creates the stream
\* of d, stores and returns it when _streams held none for d, and otherwise
\* returns the stored stream and creates nothing.  No call replaces or clears a
\* stored stream, and the table, once made, has device_count() entries and
\* keeps them; it is made only by a _get_stream call for a device d # -1, of
\* the caller's or of Scatter.forward's.
C7_OneStreamPerDevice ==
    /\ \A d \in Devices : Cardinality(StreamsOf(d)) <= 1
    /\ (last.op = "_get_stream" /\ last.device >= 0 /\ last.exc # "ImportError") =>
          /\ last.exc = "none"
          /\ IF HasStream(pre.streams, last.device)
             THEN /\ last.ret = Some(StoredStream(pre.streams, last.device))
                  /\ allStreams = pre.all
             ELSE /\ Len(allStreams) = Len(pre.all) + 1
                  /\ last.ret = Some(allStreams[Len(allStreams)])
                  /\ The(last.ret).device = last.device
                  /\ \A k \in DOMAIN pre.all : The(last.ret) # pre.all[k]
          /\ HasStream(_streams, last.device)
          /\ StoredStream(_streams, last.device) = The(last.ret)
    /\ ~IsNone(_streams) => Len(The(_streams)) = deviceCount
    /\ (~Idle /\ ~IsNone(pre.streams)) =>
          /\ ~IsNone(_streams)
          /\ Len(The(_streams)) = Len(The(pre.streams))
          /\ \A i \in DOMAIN The(pre.streams) :
                ~IsNone(The(pre.streams)[i]) => The(_streams)[i] = The(pre.streams)[i]
    /\ (~Idle /\ IsNone(pre.streams) /\ ~IsNone(_streams)) =>
          \/ last.op = "_get_stream" /\ last.device # -1
          \/ last.op \in {"Scatter.forward", "Gather.backward"}

C7_Witness ==
    /\ last.op = "_get_stream"
    /\ last.device >= 0
    /\ last.exc = "none"
    /\ HasStream(pre.streams, last.device)
    /\ Len(allStreams) = deviceCount
    /\ deviceCount >= 2

\* Scatter.forward was given an input that is not on the CPU, or it got a device
\* module that reports is_available() false
C8_Case ==
    /\ last.op = "Scatter.forward"
    /\ \/ last.input.dev # CPU
       \/ ~IsNone(implCache) /\ ~is_available(The(implCache)[2])

\* Scatter.forward in the case of C8 hands comm.scatter no streams, makes no
\* wait_stream and no record_stream call and leaves _streams as it was.
C8_ScatterFrame ==
    C8_Case =>
        /\ \A k \in ScatterCalls(last.log) : IsNone(last.log[k].streams)
        /\ last.exc # "ImportError" => ScatterCalls(last.log) = {1}
        /\ SyncCalls(last.log) = {}
        /\ _streams = pre.streams
        /\ allStreams = pre.all

\* C8 as stated: Scatter.forward in the case of C8 uses no streams, and
\* _get_stream(-1) returns None and leaves the stream table unchanged.
C8_AsStated ==
    /\ C8_ScatterFrame
    /\ (last.op = "_get_stream" /\ last.device = -1) =>
          /\ last.exc = "none"
          /\ IsNone(last.ret)
          /\ _streams = pre.streams

\* C8 (amended): Scatter.forward in the case of C8 uses no streams, and
\* _get_stream(-1) leaves the stream table unchanged and creates no stream; it
\* returns None when _get_device_impl succeeds and raises its ImportError when
\* no device type is available and no earlier call has succeeded.
C8_NoStreamsOffTheCopyPath ==
    /\ C8_ScatterFrame
    /\ (last.op = "_get_stream" /\ last.device = -1) =>
          /\ _streams = pre.streams
          /\ allStreams = pre.all
          /\ IF IsNone(pre.cache) /\ IsNone(last.avail)
             THEN last.exc = "ImportError"
             ELSE last.exc = "none" /\ IsNone(last.ret)

C8_Witness ==
    /\ last.op = "Scatter.forward"
    /\ last.input.dev = CPU
    /\ ~IsNone(implCache)
    /\ ~is_available(The(implCache)[2])
    /\ last.exc = "none"
    /\ Len(last.ret) >= 2

----------------------------------------------------------------------------
(* Claims about Broadcast, ReduceAddCoalesced and Gather *)

CallsOf(log, name) == {k \in DOMAIN log : IsCall(log[k], name)}

\* Broadcast.forward or Gather.forward was given a tensor on the CPU
C2_Case ==
    /\ last.op \in {"Broadcast.forward", "Gather.forward"}
    /\ \E i \in DOMAIN last.inputs : last.inputs[i].dev = CPU

\* C2: Broadcast.forward and Gather.forward given any tensor on the CPU raise
\* AssertionError, having made no call into comm (nor any other call) and
\* having written no field of ctx; nothing is returned.
C2_CpuTensorsRejected ==
    C2_Case =>
        /\ last.exc = "AssertionError"
        /\ last.log = <<>>
        /\ ctx.written = {}
        /\ IsNone(last.ret)

C2_Witness ==
    /\ C2_Case
    /\ last.op = "Broadcast.forward"
    /\ Len(last.inputs) >= 2
    /\ last.inputs[1].dev # CPU
    /\ last.exc = "AssertionError"

\* C4: Broadcast.forward of n >= 1 inputs to D devices returns D*n tensors, the
\* one at position d*n+i (from 0) being the copy of input i on target device d.
\* Broadcast.backward returns None and then n gradients, gradient i being, on
\* the device of the first forward input, the sum of the incoming gradients at
\* the positions d*n+i, d = 0..D-1, and of no others (the incoming gradient at
\* position k holds 2^k, so the sum tells which positions went into it).
C4_BroadcastLayout ==
    /\ (last.op = "Broadcast.forward" /\ last.exc = "none" /\ Len(last.inputs) >= 1) =>
          LET n == Len(last.inputs)
              D == Len(last.target_gpus)
          IN  /\ Len(last.ret) = D * n
              /\ \A d \in 0 .. D - 1, i \in 0 .. n - 1 :
                    /\ last.ret[d * n + i + 1].dev = last.target_gpus[d + 1]
                    /\ last.ret[d * n + i + 1].data = last.inputs[i + 1].data
    /\ last.op = "Broadcast.backward" =>
          LET n == Len(last.inputs)
              D == Len(last.target_gpus)
          IN  /\ last.exc = "none"
              /\ Len(last.grad_outputs) = D * n
              /\ Len(last.ret) = 1 + n
              /\ IsNone(last.ret[1])
              /\ \A i \in 0 .. n - 1 :
                    /\ ~IsNone(last.ret[i + 2])
                    /\ The(last.ret[i + 2]).dev = last.inputs[1].dev
                    /\ The(last.ret[i + 2]).data =
                          SumSeq([d \in 1 .. D |-> Pow2((d - 1) * n + i)])
              /\ Len(last.log[1].inputs) = D
              /\ \A d \in 1 .. D :
                    last.log[1].inputs[d] = SubSeq(last.grad_outputs, (d - 1) * n + 1, d * n)

C4_Witness ==
    /\ last.op = "Broadcast.backward"
    /\ Len(last.inputs) >= 2
    /\ Len(last.target_gpus) >= 2
    /\ last.inputs[1].dev # last.inputs[2].dev

\* C9: Gather.forward that passes its assertion sets ctx.unsqueezed_scalar to
\* True, and warns, exactly when dim = 0 and every input is 0-dimensional;
\* what it hands to comm.gather is then the inputs reshaped to 1-element
\* vectors, and otherwise the inputs themselves; a forward that returns has
\* made that one comm.gather call.  Gather.backward, when its Scatter.apply
\* returns, returns (None, None) and then one gradient for each forward input:
\* comm.scatter is given the gradient, the devices and the sizes along dim of
\* the forward inputs, and gradient i is on the device of input i and has its
\* shape (0-dimensional in the unsqueezed case, being element 0 of a chunk of
\* one element).  Its Scatter.apply fails only with the ImportError of
\* _get_device_impl.
C9_GatherUnsqueeze ==
    /\ (last.op = "Gather.forward" /\ last.exc # "AssertionError") =>
          LET cond == /\ last.dim = 0
                      /\ \A i \in DOMAIN last.inputs : last.inputs[i].shape = <<>>
              given == IF cond
                       THEN [i \in DOMAIN last.inputs |->
                               Tensor(last.inputs[i].dev, <<1>>)]
                       ELSE last.inputs
          IN  /\ "unsqueezed_scalar" \in ctx.written
              /\ ctx.unsqueezed_scalar = cond
              /\ (CallsOf(last.log, "warnings.warn") # {}) = cond
              /\ \A k \in CallsOf(last.log, "comm.gather") :
                    /\ last.log[k].tensors = given
                    /\ last.log[k].dim = last.dim
                    /\ last.log[k].destination = last.target_device
              /\ last.exc = "none" => Cardinality(CallsOf(last.log, "comm.gather")) = 1
    /\ last.op = "Gather.backward" =>
          /\ last.exc \in {"none", "ImportError"}
          /\ last.exc = "ImportError" <=> (IsNone(pre.cache) /\ IsNone(last.avail))
          /\ last.exc = "none" =>
                LET n == Len(last.inputs)
                    sc == last.log[1]
                    sized == IF ctx.unsqueezed_scalar
                             THEN [i \in 1 .. n |-> 1]
                             ELSE [i \in 1 .. n |-> last.inputs[i].shape[ctx.dim + 1]]
                IN  /\ Len(last.ret) = 2 + n
                    /\ IsNone(last.ret[1])
                    /\ IsNone(last.ret[2])
                    /\ IsCall(sc, "comm.scatter")
                    /\ sc.devices = [i \in 1 .. n |-> last.inputs[i].dev]
                    /\ sc.chunk_sizes = Some(sized)
                    /\ sc.dim = ctx.dim
                    /\ \A i \in 1 .. n :
                          /\ ~IsNone(last.ret[i + 2])
                          /\ The(last.ret[i + 2]).dev = last.inputs[i].dev
                          /\ The(last.ret[i + 2]).shape = last.inputs[i].shape
                          /\ ctx.unsqueezed_scalar => The(last.ret[i + 2]).shape = <<>>

C9_Witness ==
    /\ last.op = "Gather.backward"
    /\ last.exc = "none"
    /\ ctx.unsqueezed_scalar
    /\ Len(last.inputs) >= 2
    /\ last.inputs[1].dev # last.inputs[2].dev

\* C10: in Broadcast.forward with at least one input, the output at position
\* d*n+i is handed to ctx.mark_non_differentiable exactly when input i does not
\* require a gradient (entry i+1 of ctx.needs_input_grad, entry 0 being that of
\* target_gpus): the copy of such an input on every target device is marked,
\* and no copy of an input that requires a gradient is.
C10_NonDifferentiableCopies ==
    (last.op = "Broadcast.forward" /\ last.exc = "none" /\ Len(last.inputs) >= 1) =>
        LET n == Len(last.inputs)
            D == Len(last.target_gpus)
            marks == CallsOf(last.log, "mark_non_differentiable")
        IN  /\ Cardinality(marks) = 1
            /\ \A k \in marks :
                  /\ \A p \in 1 .. D * n :
                        (last.ret[p] \in last.log[k].tensors)
                            <=> ~last.needs_input_grad[((p - 1) % n) + 2]
                  /\ \A i \in 1 .. n, d \in 1 .. D :
                        (DataTensor(last.target_gpus[d], last.inputs[i].data)
                            \in last.log[k].tensors)
                            <=> ~last.needs_input_grad[i + 1]
                  /\ last.log[k].tensors \subseteq {last.ret[p] : p \in 1 .. D * n}

C10_Witness ==
    /\ last.op = "Broadcast.forward"
    /\ last.exc = "none"
    /\ Len(last.inputs) >= 2
    /\ Len(last.target_gpus) >= 2
    /\ last.needs_input_grad[2]
    /\ ~last.needs_input_grad[3]

----------------------------------------------------------------------------
(* Claims about preprocess *)

\* The strings Python gives for the values the model hands to preprocess
ExpectedInputName(i) == <<"input_0", "input_1", "input_2", "input_3">>[i]

ExpectedDtypeStr(dtype) == <<"0", "1", "2", "3", "4">>[dtype + 1]

ExpectedShapeStr(shape) ==
    IF shape = <<IntElem(1), IntElem(12)>> THEN "[1, 12]"
    ELSE IF shape = <<ListElem(<<1, 2>>), ListElem(<<1, 3>>)>> THEN "[[1, 2], [1, 3]]"
    ELSE "[1]"

\* C5: a preprocess call that returns, returns a record with exactly the keys
\* model, hash and extra: model is the serialized spec of the converted model,
\* hash the SHA-256 hex digest of those same bytes, extra the JSON of an object
\* with exactly the keys inputs, outputs, config and metadata; inputs has one
\* entry for each input spec, in order, entry i being
\* ['input_<i>', str(dtype_i), str(shape_i)], and the i-th input handed to
\* ct.convert has that name.
C5_PreprocessRecord ==
    (last.op = "preprocess" /\ last.exc = "none") =>
        LET r == The(last.ret)
            input_specs == last.compile_spec["forward"][1]
            extra == r.extra.json
        IN  /\ DOMAIN r = {"model", "hash", "extra"}
            /\ r.model = last.mlspec.serialized
            /\ r.hash = sha256_hexdigest(r.model)
            /\ DOMAIN extra = {"inputs", "outputs", "config", "metadata"}
            /\ Len(extra.inputs) = Len(input_specs)
            /\ Len(last.log[1].inputs) = Len(input_specs)
            /\ \A i \in DOMAIN input_specs :
                  /\ extra.inputs[i] = << ExpectedInputName(i),
                                          ExpectedDtypeStr(input_specs[i][2]),
                                          ExpectedShapeStr(input_specs[i][1]) >>
                  /\ last.log[1].inputs[i].name = ExpectedInputName(i)

C5_Witness ==
    /\ last.op = "preprocess"
    /\ last.exc = "none"
    /\ Len(last.compile_spec["forward"][1]) >= 2
    /\ last.compile_spec["forward"][1][1][1] # last.compile_spec["forward"][1][2][1]
    /\ Len(last.compile_spec["forward"][2]) >= 1

\* ct.convert returned a model
C6_Case == last.op = "preprocess" /\ CallsOf(last.log, "ct.convert") # {}

\* C6: when the converted model describes a number of outputs that differs
\* from the number of output specs, preprocess raises AssertionError and
\* returns nothing; when the numbers are equal, the outputs list of the extra
\* record has one entry for each output spec, in order, entry i named by the
\* converted model's output i and holding str(dtype_i) and str(shape_i).
C6_OutputCount ==
    C6_Case =>
        LET output_specs == last.compile_spec["forward"][2]
        IN  IF Len(last.mlspec.output) # Len(output_specs)
            THEN last.exc = "AssertionError" /\ IsNone(last.ret)
            ELSE /\ last.exc = "none"
                 /\ Len(The(last.ret).extra.json.outputs) = Len(output_specs)
                 /\ \A i \in DOMAIN output_specs :
                       The(last.ret).extra.json.outputs[i] =
                           << last.mlspec.output[i],
                              ExpectedDtypeStr(output_specs[i][2]),
                              ExpectedShapeStr(output_specs[i][1]) >>

C6_Witness ==
    /\ C6_Case
    /\ last.exc = "AssertionError"
    /\ Len(last.compile_spec["forward"][2]) >= 1
    /\ Len(last.mlspec.output) > Len(last.compile_spec["forward"][2])

====
